---- MODULE Spec2Model ----
(***************************************************************************)
(* Model of the PDF outline extractor (solution/round_1a.py) and of its    *)
(* batch driver (solution/main.py).                                        *)
(*                                                                         *)
(* Strings are sequences of one-character strings, so that strip, lower,   *)
(* isupper, split, startswith, endswith and splitext are computed.         *)
(* Font sizes are integers: hundredths of a point in a raw span, tenths of *)
(* a point once rounded by round(size, 1).                                 *)
(***************************************************************************)
EXTENDS Integers, Sequences, FiniteSets, TLC

(***************************************************************************)
(* Python string primitives                                                *)
(***************************************************************************)
UpperLetters ==
    <<"A","B","C","D","E","F","G","H","I","J","K","L","M",
      "N","O","P","Q","R","S","T","U","V","W","X","Y","Z">>

LowerLetters ==
    <<"a","b","c","d","e","f","g","h","i","j","k","l","m",
      "n","o","p","q","r","s","t","u","v","w","x","y","z">>

DigitChars == {"0","1","2","3","4","5","6","7","8","9"}

Whitespace == {" ", "\t", "\n"}

IsUpperChar(c) == \E i \in 1..26 : UpperLetters[i] = c

IsLowerChar(c) == \E i \in 1..26 : LowerLetters[i] = c

LowerChar(c) ==
    IF IsUpperChar(c)
    THEN LowerLetters[CHOOSE i \in 1..26 : UpperLetters[i] = c]
    ELSE c

\* str.lower()
StrLower(s) == [i \in 1..Len(s) |-> LowerChar(s[i])]

\* str.isupper(): at least one cased character and no lower-case one
StrIsUpper(s) ==
    /\ \E i \in 1..Len(s) : IsUpperChar(s[i])
    /\ ~ \E i \in 1..Len(s) : IsLowerChar(s[i])

\* str.strip()
StrStrip(s) ==
    LET keep == {i \in 1..Len(s) : s[i] \notin Whitespace}
    IN  IF keep = {} THEN << >>
        ELSE SubSeq(s, CHOOSE a \in keep : \A b \in keep : a <= b,
                       CHOOSE a \in keep : \A b \in keep : a >= b)

\* len(str.split()): the number of whitespace-separated tokens
WordCount(s) ==
    Cardinality({i \in 1..Len(s) :
                    /\ s[i] \notin Whitespace
                    /\ (i = 1 \/ s[i - 1] \in Whitespace)})

\* bool(re.search(r'\d', text))
HasDigit(s) == \E i \in 1..Len(s) : s[i] \in DigitChars

\* str.startswith(p)
StartsWith(s, p) == Len(s) >= Len(p) /\ SubSeq(s, 1, Len(p)) = p

\* str.endswith(p)
EndsWith(s, p) ==
    Len(s) >= Len(p) /\ SubSeq(s, Len(s) - Len(p) + 1, Len(s)) = p

\* os.path.splitext(name)[0] for a name without a directory separator: the
\* part before the last dot, unless only dots precede that dot
SplitExtRoot(name) ==
    LET dots == {i \in 1..Len(name) : name[i] = "."}
    IN  IF dots = {} THEN name
        ELSE LET d == CHOOSE i \in dots : \A j \in dots : j <= i
             IN  IF \E k \in 1..(d - 1) : name[k] # "."
                 THEN SubSeq(name, 1, d - 1)
                 ELSE name

\* the indices of the set S, in increasing order
IndexSeq(S) ==
    [k \in 1..Cardinality(S) |->
        CHOOSE i \in S : Cardinality({j \in S : j < i}) = k - 1]

RECURSIVE Flatten(_)
Flatten(ss) == IF ss = << >> THEN << >> ELSE Head(ss) \o Flatten(Tail(ss))

(***************************************************************************)
(* Literals of the program                                                 *)
(***************************************************************************)
UntitledDocument ==
    <<"U","n","t","i","t","l","e","d"," ","D","o","c","u","m","e","n","t">>

PagePrefix == <<"P","a","g","e">>

ChapterPrefix == <<"C","h","a","p","t","e","r">>

PdfExt == <<".","p","d","f">>

JsonExt == <<".","j","s","o","n">>

BoldFlag == 16

\* the font names whose lower-cased form contains "bold"
BoldFontNames == {"Helvetica-Bold", "Arial-BoldMT"}

TitleTopN == 10

TitleMinSize == 120

TitleMaxWords == 15

MaxLevels == 3

DefaultResult == [title |-> UntitledDocument, outline |-> << >>]

(***************************************************************************)
(* _extract_text_elements                                                  *)
(***************************************************************************)
\* round(span["size"], 1): hundredths of a point to the nearest tenth
Round1(size) == (size + 5) \div 10

\* "bold" in span["font"].lower() or span.get("flags", 0) & 2**4
\* The `or` yields True (the integer 1) when the name matches, and otherwise
\* the masked integer itself: 16 or 0.
IsBoldValue(span) ==
    IF span.font \in BoldFontNames THEN 1
    ELSE ((span.flags \div BoldFlag) % 2) * BoldFlag

MakeElement(span, page_num) ==
    LET text == StrStrip(span.text)
    IN  [text        |-> text,
         font_size   |-> Round1(span.size),
         is_bold     |-> IsBoldValue(span),
         page        |-> page_num,
         y_pos       |-> span.y,
         word_count  |-> WordCount(text),
         char_count  |-> Len(text),
         is_all_caps |-> StrIsUpper(text),
         has_numbers |-> HasDigit(text)]

\* the spans of one page: text blocks only, blank spans skipped
PageElements(page, page_num) ==
    LET keep == {i \in 1..Len(page) :
                    page[i].type = 0 /\ StrStrip(page[i].text) # << >>}
        idx  == IndexSeq(keep)
    IN  [k \in 1..Len(idx) |-> MakeElement(page[idx[k]], page_num)]

extract_text_elements(pages) ==
    Flatten([p \in 1..Len(pages) |-> PageElements(pages[p], p)])

(***************************************************************************)
(* _extract_title                                                          *)
(***************************************************************************)
\* TitleKeyBefore with the sign of y_pos lost: lowest on the page first
TitleKeyBefore_YDescending(a, b) ==
    \/ a.font_size > b.font_size
    \/ a.font_size = b.font_size /\ a.y_pos > b.y_pos

\* the order of sort(key=(font_size, -y_pos), reverse=True)
TitleKeyBefore(a, b) ==
    \/ a.font_size > b.font_size
    \/ a.font_size = b.font_size /\ (0 - a.y_pos) > (0 - b.y_pos)

\* list.sort is stable, also with reverse=True
TitleSort(es) ==
    LET pos(i) == Cardinality({j \in 1..Len(es) :
                      \/ TitleKeyBefore(es[j], es[i])
                      \/ ~ TitleKeyBefore(es[i], es[j]) /\ j < i}) + 1
    IN  [k \in 1..Len(es) |-> es[CHOOSE i \in 1..Len(es) : pos(i) = k]]

IsGoodTitle(e) ==
    /\ e.font_size >= TitleMinSize
    /\ e.word_count <= TitleMaxWords
    /\ e.word_count >= 1
    /\ ~ e.has_numbers
    /\ ~ StartsWith(e.text, PagePrefix)
    /\ ~ StartsWith(e.text, ChapterPrefix)
    /\ Len(e.text) > 2

TitleWindow(sorted) ==
    SubSeq(sorted, 1, IF Len(sorted) < TitleTopN THEN Len(sorted) ELSE TitleTopN)

extract_title(elements) ==
    IF elements = << >> THEN UntitledDocument
    ELSE
      LET first_page_elements ==
              TitleSort(SelectSeq(elements, LAMBDA e : e.page = 1))
          title_candidates ==
              SelectSeq(TitleWindow(first_page_elements), IsGoodTitle)
      IN  IF first_page_elements = << >> THEN UntitledDocument
          ELSE IF title_candidates # << >> THEN title_candidates[1].text
          ELSE first_page_elements[1].text

(***************************************************************************)
(* _analyze_body_text                                                      *)
(***************************************************************************)
SizeCount(elements, size) ==
    Cardinality({i \in 1..Len(elements) : elements[i].font_size = size})

\* Counter(font_sizes).most_common(1)[0][0]: the highest count, and among
\* equal counts the size that was inserted first
MostCommonSize(elements) ==
    LET first(size) == CHOOSE i \in 1..Len(elements) :
                          /\ elements[i].font_size = size
                          /\ \A j \in 1..(i - 1) : elements[j].font_size # size
        sizes == {elements[i].font_size : i \in 1..Len(elements)}
    IN  CHOOSE s \in sizes :
            \A t \in sizes :
                \/ SizeCount(elements, t) < SizeCount(elements, s)
                \/ SizeCount(elements, t) = SizeCount(elements, s)
                   /\ first(s) <= first(t)

RECURSIVE SumField(_, _)
SumField(es, f) == IF es = << >> THEN 0 ELSE Head(es)[f] + SumField(Tail(es), f)

\* The two averages are kept as the pair <<sum, count>>.
analyze_body_text(elements) ==
    LET body_size     == MostCommonSize(elements)
        body_elements == SelectSeq(elements, LAMBDA e : e.font_size = body_size)
    IN  [size           |-> body_size,
         frequency      |-> SizeCount(elements, body_size),
         avg_word_count |-> <<SumField(body_elements, "word_count"), Len(body_elements)>>,
         avg_char_count |-> <<SumField(body_elements, "char_count"), Len(body_elements)>>,
         total_elements |-> Len(elements)]

(***************************************************************************)
(* _identify_heading_candidates                                            *)
(***************************************************************************)
\* font_size >= body_size * 1.1, on tenths of a point
IsSignificantlyLarger(font_size, body_size) == font_size * 10 >= body_size * 11

HeadingScore(e, body_size) ==
      (IF e.font_size > body_size THEN 2 ELSE 0)
    + (IF IsSignificantlyLarger(e.font_size, body_size) THEN 3 ELSE 0)
    + (IF e.is_bold # 0 THEN 2 ELSE 0)
    + (IF e.is_all_caps THEN 1 ELSE 0)
    + (IF 3 <= e.word_count /\ e.word_count <= 20 THEN 1 ELSE 0)
    + (IF ~ e.has_numbers THEN 1 ELSE 0)

\* IsCandidate without the larger-than-body gate
IsCandidate_NoGate(e, body_size) ==
    /\ ~ (Len(e.text) < 3)
    /\ HeadingScore(e, body_size) >= 3

\* the test that admits a run: the length skip, then score and size gate
IsCandidate(e, body_size) ==
    /\ ~ (Len(e.text) < 3)
    /\ HeadingScore(e, body_size) >= 3
    /\ e.font_size > body_size

\* A candidate is the element with its heading_score.  src is a history
\* field, the index of the element in text_elements; the program has no
\* such key and nothing below reads it.
identify_heading_candidates(elements, body_stats) ==
    LET idx == IndexSeq({i \in 1..Len(elements) :
                            IsCandidate(elements[i], body_stats.size)})
    IN  [k \in 1..Len(idx) |->
            LET e == elements[idx[k]]
            IN  [text          |-> e.text,
                 font_size     |-> e.font_size,
                 is_bold       |-> e.is_bold,
                 page          |-> e.page,
                 y_pos         |-> e.y_pos,
                 word_count    |-> e.word_count,
                 char_count    |-> e.char_count,
                 is_all_caps   |-> e.is_all_caps,
                 has_numbers   |-> e.has_numbers,
                 heading_score |-> HeadingScore(e, body_stats.size),
                 src           |-> idx[k]]]

(***************************************************************************)
(* _classify_heading_levels                                                *)
(***************************************************************************)
\* The key compares as Python compares the tuple: True is the integer 1,
\* so a name-derived bold (1) and a flag-derived bold (16) are unequal.
StyleKey(c) == <<c.font_size, c.is_bold, c.is_all_caps>>

\* f"H{i+1}" for the zero-based i = rank - 1
LevelName(rank) == <<"H1","H2","H3","H4","H5","H6","H7","H8","H9">>[rank]

\* sorted(style_groups.keys(), key=lambda x: x[0], reverse=True): the keys
\* in dictionary (first insertion) order, stably sorted by size descending
SortedStyles(candidates) ==
    LET keys == {StyleKey(candidates[i]) : i \in 1..Len(candidates)}
        first(k) == CHOOSE i \in 1..Len(candidates) :
                        /\ StyleKey(candidates[i]) = k
                        /\ \A j \in 1..(i - 1) : StyleKey(candidates[j]) # k
        pos(k) == Cardinality({m \in keys :
                      \/ m[1] > k[1]
                      \/ m[1] = k[1] /\ first(m) < first(k)}) + 1
    IN  [r \in 1..Cardinality(keys) |-> CHOOSE k \in keys : pos(k) = r]

\* MappedRanks with a fourth level instead of a cut after the third
MappedRanks_Four(sorted_styles) ==
    1..(IF Len(sorted_styles) < MaxLevels + 1 THEN Len(sorted_styles) ELSE MaxLevels + 1)

\* sorted_styles[:3], as the set of ranks that receive a level
MappedRanks(sorted_styles) ==
    1..(IF Len(sorted_styles) < MaxLevels THEN Len(sorted_styles) ELSE MaxLevels)

\* A heading has the keys level, text and page; src is carried along as the
\* history field of the candidate.
classify_heading_levels(candidates) ==
    IF candidates = << >> THEN << >>
    ELSE
      LET sorted_styles == SortedStyles(candidates)
          mapped        == MappedRanks(sorted_styles)
          rank(c)       == CHOOSE r \in 1..Len(sorted_styles) :
                               sorted_styles[r] = StyleKey(c)
          idx == IndexSeq({i \in 1..Len(candidates) : rank(candidates[i]) \in mapped})
      IN  [k \in 1..Len(idx) |->
              LET c == candidates[idx[k]]
              IN  [level |-> LevelName(rank(c)),
                   text  |-> c.text,
                   page  |-> c.page,
                   src   |-> c.src]]

(***************************************************************************)
(* _create_final_outline                                                   *)
(***************************************************************************)
\* x.get("y_pos", 0)
GetYPos(x) == IF "y_pos" \in DOMAIN x THEN x.y_pos ELSE 0

\* the order of sort(key=lambda x: (x["page"], x.get("y_pos", 0)))
OutlineKeyBefore(a, b) ==
    \/ a.page < b.page
    \/ a.page = b.page /\ GetYPos(a) < GetYPos(b)

OutlineSort(hs) ==
    LET pos(i) == Cardinality({j \in 1..Len(hs) :
                      \/ OutlineKeyBefore(hs[j], hs[i])
                      \/ ~ OutlineKeyBefore(hs[i], hs[j]) /\ j < i}) + 1
    IN  [k \in 1..Len(hs) |-> hs[CHOOSE i \in 1..Len(hs) : pos(i) = k]]

\* NormalizedText without the lower-casing
NormalizedText_CaseSensitive(h) == StrStrip(h.text)

\* heading["text"].strip().lower()
NormalizedText(h) == StrLower(StrStrip(h.text))

\* the loop over the sorted headings with its seen_texts set
RECURSIVE DedupLoop(_, _, _)
DedupLoop(hs, seen_texts, final_outline) ==
    IF hs = << >> THEN final_outline
    ELSE LET normalized_text == NormalizedText(Head(hs))
         IN  IF normalized_text \notin seen_texts /\ Len(normalized_text) > 2
             THEN DedupLoop(Tail(hs), seen_texts \cup {normalized_text},
                            Append(final_outline, Head(hs)))
             ELSE DedupLoop(Tail(hs), seen_texts, final_outline)

create_final_outline(classified_headings) ==
    IF classified_headings = << >> THEN << >>
    ELSE DedupLoop(OutlineSort(classified_headings), {}, << >>)

(***************************************************************************)
(* _extract_headings                                                       *)
(***************************************************************************)
extract_headings(elements) ==
    IF elements = << >> THEN << >>
    ELSE create_final_outline(
             classify_heading_levels(
                 identify_heading_candidates(elements, analyze_body_text(elements))))

(***************************************************************************)
(* State                                                                   *)
(***************************************************************************)
VARIABLES
    input_dir,           \* what os.listdir(INPUT_DIR) meets: [ok, files]
    output_dir,          \* OUTPUT_DIR: file name -> the JSON object written
    pc,                  \* position of main / run_round_1a / extract_outline
    pdf_files,           \* main: the names that passed the ".pdf" filter
    idx,                 \* main: position of the for loop in pdf_files
    success_count,       \* main
    rets,                \* the values run_round_1a has returned so far
    open_docs,           \* loop positions whose fitz document is not closed
    text_elements,       \* extract_outline
    body_stats,          \* _extract_headings
    heading_candidates,  \* _extract_headings
    classified_headings, \* _extract_headings
    result,              \* what extract_outline returned
    exit_code            \* sys.exit status, 0 while running

vars == <<input_dir, output_dir, pc, pdf_files, idx, success_count, rets,
          open_docs, text_elements, body_stats, heading_candidates,
          classified_headings, result, exit_code>>

locals == <<text_elements, body_stats, heading_candidates, classified_headings>>

NoStats == [size |-> 0, frequency |-> 0, avg_word_count |-> <<0, 0>>,
            avg_char_count |-> <<0, 0>>, total_elements |-> 0]

\* the file of the input directory with the given name
FileNamed(name) ==
    input_dir.files[CHOOSE i \in 1..Len(input_dir.files) :
                        input_dir.files[i].name = name]

CurrentPdf == FileNamed(pdf_files[idx]).pdf

\* f.lower().endswith(".pdf")
IsPdfName(name) == EndsWith(StrLower(name), PdfExt)

\* os.path.splitext(pdf_file)[0] + ".json"
OutputFilename(pdf_file) == SplitExtRoot(pdf_file) \o JsonExt

\* all(key in item for key in ["level", "text", "page"]) for every item
ValidOutline(outline) ==
    \A i \in 1..Len(outline) : {"level", "text", "page"} \subseteq DOMAIN outline[i]

InitCommon ==
    /\ output_dir = << >>
    /\ pc = "main"
    /\ pdf_files = << >>
    /\ idx = 0
    /\ success_count = 0
    /\ rets = << >>
    /\ open_docs = {}
    /\ text_elements = << >>
    /\ body_stats = NoStats
    /\ heading_candidates = << >>
    /\ classified_headings = << >>
    /\ result = DefaultResult
    /\ exit_code = 0

(***************************************************************************)
(* main and run_round_1a                                                   *)
(***************************************************************************)
\* main, up to the for loop: list the directory, filter, exit(1) when the
\* listing fails or no name passes
main_list ==
    /\ pc = "main"
    /\ IF ~ input_dir.ok
       THEN /\ pc' = "exit"
            /\ exit_code' = 1
            /\ UNCHANGED pdf_files
       ELSE LET names == [i \in 1..Len(input_dir.files) |-> input_dir.files[i].name]
                found == SelectSeq(names, IsPdfName)
            IN  /\ pdf_files' = found
                /\ IF found = << >>
                   THEN pc' = "exit" /\ exit_code' = 1
                   ELSE pc' = "loop" /\ UNCHANGED exit_code
    /\ idx' = 1
    /\ UNCHANGED <<input_dir, output_dir, success_count, rets, open_docs,
                   locals, result>>

\* one iteration starts: run_round_1a calls extract_outline, which opens
\* the document or returns the default on a failed open
open_document ==
    /\ pc = "loop"
    /\ idx <= Len(pdf_files)
    /\ text_elements' = << >>
    /\ body_stats' = NoStats
    /\ heading_candidates' = << >>
    /\ classified_headings' = << >>
    /\ IF CurrentPdf.openable
       THEN /\ open_docs' = open_docs \cup {idx}
            /\ pc' = "opened"
            /\ UNCHANGED result
       ELSE /\ result' = DefaultResult
            /\ pc' = "returned"
            /\ UNCHANGED open_docs
    /\ UNCHANGED <<input_dir, output_dir, pdf_files, idx, success_count, rets,
                   exit_code>>

\* _extract_text_elements and the test on its result.  Reading a page of a
\* document that opened can still raise (an encrypted or damaged file); no
\* handler in extract_outline catches that.
extract_elements ==
    /\ pc = "opened"
    /\ IF ~ CurrentPdf.readable
       THEN /\ pc' = "raised"
            /\ UNCHANGED <<text_elements, result>>
       ELSE LET elements == extract_text_elements(CurrentPdf.pages)
            IN  /\ text_elements' = elements
                /\ IF elements = << >>
                   THEN pc' = "returned" /\ result' = DefaultResult
                   ELSE pc' = "analyze" /\ UNCHANGED result
    /\ UNCHANGED <<input_dir, output_dir, pdf_files, idx, success_count, rets,
                   open_docs, body_stats, heading_candidates,
                   classified_headings, exit_code>>

\* title, headings, doc.close(), return
analyze_document ==
    /\ pc = "analyze"
    /\ LET stats      == analyze_body_text(text_elements)
           candidates == identify_heading_candidates(text_elements, stats)
           classified == classify_heading_levels(candidates)
       IN  /\ body_stats' = stats
           /\ heading_candidates' = candidates
           /\ classified_headings' = classified
           /\ result' = [title   |-> extract_title(text_elements),
                         outline |-> create_final_outline(classified)]
    /\ open_docs' = open_docs \ {idx}
    /\ pc' = "returned"
    /\ UNCHANGED <<input_dir, output_dir, pdf_files, idx, success_count, rets,
                   text_elements, exit_code>>

\* run_round_1a after extract_outline has returned: validate, write, and the
\* caller's success_count
write_output ==
    /\ pc = "returned"
    /\ LET output == [title |-> result.title, outline |-> result.outline]
           name   == OutputFilename(pdf_files[idx])
       IN  IF ValidOutline(output.outline)
           THEN /\ output_dir' = [n \in DOMAIN output_dir \cup {name} |->
                                     IF n = name THEN output ELSE output_dir[n]]
                /\ rets' = Append(rets, TRUE)
                /\ success_count' = success_count + 1
           ELSE /\ rets' = Append(rets, FALSE)
                /\ UNCHANGED <<output_dir, success_count>>
    /\ idx' = idx + 1
    /\ pc' = "loop"
    /\ UNCHANGED <<input_dir, pdf_files, open_docs, locals, result, exit_code>>

\* run_round_1a's except clause
handle_exception ==
    /\ pc = "raised"
    /\ rets' = Append(rets, FALSE)
    /\ idx' = idx + 1
    /\ pc' = "loop"
    /\ UNCHANGED <<input_dir, output_dir, pdf_files, success_count, open_docs,
                   locals, result, exit_code>>

\* main after the loop
main_report ==
    /\ pc = "loop"
    /\ idx > Len(pdf_files)
    /\ pc' = "done"
    /\ UNCHANGED <<input_dir, output_dir, pdf_files, idx, success_count, rets,
                   open_docs, locals, result, exit_code>>

Next ==
    \/ main_list
    \/ open_document
    \/ extract_elements
    \/ analyze_document
    \/ write_output
    \/ handle_exception
    \/ main_report

(***************************************************************************)
(* Inputs: bounded families of input directories                           *)
(***************************************************************************)
MaxPages == 2

MaxRunsOutline == 3

MaxRunsLevels == 4

MaxRunsBold == 4

MaxFill == 10

MaxFiles == 3

TxtBody == <<"b","o","d","y"," ","t","e","x","t"," ","h","e","r","e">>

TxtIntro == <<"I","n","t","r","o">>

TxtIntroPadded == <<" ","I","n","t","r","o"," ">>

TxtINTRO == <<"I","N","T","R","O">>

TxtSummary == <<"S","u","m","m","a","r","y">>

TxtScope == <<"S","c","o","p","e">>

TxtAb == <<"A","b">>

TxtPage1 == <<"P","a","g","e"," ","1">>

TxtChapterOne == <<"C","h","a","p","t","e","r"," ","O","n","e">>

TxtSixteenWords == <<"a"," ","b"," ","c"," ","d"," ","e"," ","f"," ","g"," ","h"," ","i"," ","j"," ","k"," ","l"," ","m"," ","n"," ","o"," ","p">>

TxtBlank == <<" "," ">>

NameA == <<"a",".","p","d","f">>

NameAUpper == <<"a",".","P","D","F">>

NameB == <<"b",".","P","d","f">>

NameNotes == <<"n","o","t","e","s",".","t","x","t">>

\* a span of a text block, with the top of its line's bbox
Span(text, size, font, flags, y) ==
    [type |-> 0, text |-> text, size |-> size, font |-> font,
     flags |-> flags, y |-> y]

\* an image block: it has no lines
ImageBlock ==
    [type |-> 1, text |-> << >>, size |-> 0, font |-> "", flags |-> 0, y |-> 0]

BodySpan == Span(TxtBody, 1004, "Helvetica", 0, 30)

Pdf(pages) == [openable |-> TRUE, readable |-> TRUE, pages |-> pages]

\* corrupt or not a PDF: fitz.open raises
UnopenablePdf == [openable |-> FALSE, readable |-> FALSE, pages |-> << >>]

\* opens, but reading its pages raises
UnreadablePdf == [openable |-> TRUE, readable |-> FALSE, pages |-> << >>]

File(name, pdf) == [name |-> name, pdf |-> pdf]

Dir(files) == [ok |-> TRUE, files |-> files]

FlatSeqs(S, n) == UNION {[1..k -> S] : k \in 0..n}

\* the non-decreasing assignments of n spans to the pages
PageAssignments(n) ==
    {pg \in [1..n -> 1..MaxPages] : \A i \in 1..(n - 1) : pg[i] <= pg[i + 1]}

PagesOf(flat, pg) ==
    [p \in 1..MaxPages |->
        LET on_page == IndexSeq({i \in 1..Len(flat) : pg[i] = p})
        IN  [k \in 1..Len(on_page) |-> flat[on_page[k]]]]

\* every document of at most n spans of S on MaxPages pages
DocsOver(S, n) ==
    UNION {{PagesOf(flat, pg) : pg \in PageAssignments(Len(flat))} :
              flat \in FlatSeqs(S, n)}

SingleFileDirs(docs) == {Dir(<<File(NameA, Pdf(d))>>) : d \in docs}

\* directories that take the failure paths
EdgeInputs ==
    { [ok |-> FALSE, files |-> << >>],
      Dir(<<File(NameNotes, UnopenablePdf)>>),
      Dir(<<File(NameA, UnopenablePdf)>>),
      Dir(<<File(NameA, UnreadablePdf)>>),
      Dir(<<File(NameA, Pdf(<< <<Span(TxtBlank, 1000, "Helvetica", 0, 10), ImageBlock>> >>))>>) }

\* spans that differ in text, case, page position and size
OutlineSpans ==
    { BodySpan,
      Span(TxtIntroPadded, 1800, "Helvetica-Bold", 0, 20),
      Span(TxtINTRO, 1400, "Helvetica-Bold", 0, 10),
      Span(TxtSummary, 1400, "Helvetica-Bold", 0, 10),
      Span(TxtAb, 2400, "Helvetica-Bold", 0, 15) }

OutlineInputs == EdgeInputs \cup SingleFileDirs(DocsOver(OutlineSpans, MaxRunsOutline))

\* spans of five sizes; the body-sized run is bold
LevelSpans ==
    { Span(TxtBody, 1004, "Helvetica-Bold", 0, 50),
      Span(TxtIntro, 2400, "Helvetica-Bold", 0, 10),
      Span(TxtScope, 1800, "Helvetica", 16, 20),
      Span(TxtINTRO, 1400, "Arial-BoldMT", 16, 30),
      Span(TxtChapterOne, 1050, "Helvetica", 4, 40) }

OnPageOne(flat) == [p \in 1..MaxPages |-> IF p = 1 THEN flat ELSE << >>]

\* all spans on page 1: every sequence of at most MaxRunsLevels spans, and
\* each of them after a leading body-text run
LevelDocs ==
    {OnPageOne(flat) : flat \in FlatSeqs(LevelSpans, MaxRunsLevels)} \cup
    {OnPageOne(<<BodySpan>> \o flat) : flat \in FlatSeqs(LevelSpans, MaxRunsLevels)}

LevelInputs == EdgeInputs \cup SingleFileDirs(LevelDocs)

\* runs of one size whose boldness comes from the font name or from the flag
BoldSpans ==
    { BodySpan,
      Span(TxtScope, 1800, "Helvetica", 16, 20),
      Span(TxtSummary, 1800, "Helvetica-Bold", 0, 25) }

BoldInputs ==
    EdgeInputs \cup
    SingleFileDirs({OnPageOne(flat) : flat \in FlatSeqs(BoldSpans, MaxRunsBold)})

\* a large run that is no title: it has a digit and starts with "Page"
FillerSpan == Span(TxtPage1, 1800, "Helvetica", 0, 10)

TitleSpans ==
    { Span(TxtSummary, 1400, "Helvetica", 0, 5),
      Span(TxtIntro, 1800, "Helvetica", 0, 20),
      Span(TxtINTRO, 1800, "Helvetica", 0, 5),
      Span(TxtScope, 1000, "Helvetica", 0, 5),
      Span(TxtChapterOne, 2400, "Helvetica", 0, 5),
      Span(TxtSixteenWords, 2400, "Helvetica", 0, 5),
      Span(TxtAb, 2400, "Helvetica", 0, 5) }

\* a run that would qualify as the title, placed on page 2
SecondPageSpan == Span(TxtScope, 3000, "Helvetica", 0, 5)

\* page 1: at most one free span, k filler runs, at most one free span;
\* page 2: nothing or the second-page run
TitleDocs ==
    {[p \in 1..MaxPages |->
        IF p = 1 THEN d[1] \o [i \in 1..d[2] |-> FillerSpan] \o d[3]
        ELSE IF p = 2 THEN d[4] ELSE << >>] :
        d \in FlatSeqs(TitleSpans, 1) \X (0..MaxFill)
              \X FlatSeqs(TitleSpans, 1) \X FlatSeqs({SecondPageSpan}, 1)}

TitleInputs == EdgeInputs \cup SingleFileDirs(TitleDocs)

BatchPdfs ==
    { UnopenablePdf,
      UnreadablePdf,
      Pdf(<< << >> >>),
      Pdf(<< <<BodySpan, ImageBlock, Span(TxtIntro, 1800, "Helvetica-Bold", 0, 10)>> >>) }

BatchNames == {NameA, NameAUpper, NameB, NameNotes}

\* os.listdir returns distinct names, in any order
BatchInputs ==
    {[ok |-> FALSE, files |-> << >>]} \cup
    {Dir(fs) : fs \in {f \in FlatSeqs({File(n, d) : n \in BatchNames, d \in BatchPdfs}, MaxFiles) :
                          \A i, j \in 1..Len(f) : i # j => f[i].name # f[j].name}}

(***************************************************************************)
(* Specifications                                                          *)
(***************************************************************************)
Init == InitCommon /\ input_dir \in BatchInputs

InitOutline == InitCommon /\ input_dir \in OutlineInputs

InitLevels == InitCommon /\ input_dir \in LevelInputs

InitTitle == InitCommon /\ input_dir \in TitleInputs

InitBold == InitCommon /\ input_dir \in BoldInputs

Spec == Init /\ [][Next]_vars

SpecOutline == InitOutline /\ [][Next]_vars

SpecLevels == InitLevels /\ [][Next]_vars

SpecTitle == InitTitle /\ [][Next]_vars

SpecBold == InitBold /\ [][Next]_vars

(***************************************************************************)
(* Properties                                                              *)
(***************************************************************************)
\* extract_outline has returned from its last statement: the title and the
\* outline in result were computed from text_elements
Analysed == pc = "returned" /\ text_elements # << >>

Outline == result.outline

\* the run an outline entry or candidate was built from
Origin(h) == text_elements[h.src]

\* C1: adjacent outline entries are in page order and, on one page, the
\* originating run of the earlier entry is not lower on the page
C1_OutlineOrdered ==
    Analysed =>
        \A i \in 1..(Len(Outline) - 1) :
            /\ Outline[i].page <= Outline[i + 1].page
            /\ Outline[i].page = Outline[i + 1].page
                  => Origin(Outline[i]).y_pos <= Origin(Outline[i + 1]).y_pos

\* C2: when the loop is about to start the next document, no document
\* opened by an earlier iteration is still open
C2_ClosedBeforeNext ==
    (pc = "loop" /\ idx <= Len(pdf_files)) => open_docs = {}

\* C3: no failure leaves extract_outline as an exception, and a document
\* that cannot be opened or read yields the default result
C3_NeverPropagates ==
    /\ pc # "raised"
    /\ (pc = "returned" /\ ~ (CurrentPdf.openable /\ CurrentPdf.readable))
          => result = DefaultResult

\* C4: a file that cannot be opened makes run_round_1a return False and is
\* not counted, and every file of the batch is processed
C4_OpenFailureCounted ==
    /\ \A i \in 1..Len(rets) :
          ~ FileNamed(pdf_files[i]).pdf.openable => rets[i] = FALSE
    /\ success_count <=
          Cardinality({i \in 1..Len(rets) : FileNamed(pdf_files[i]).pdf.openable})
    /\ pc = "done" => Len(rets) = Len(pdf_files)

\* C5: a batch whose files all opened, were read and were reported as
\* successful leaves one JSON file per input, named after its base name,
\* with the three keys in every outline item
C5_OneOutputPerInput ==
    ( /\ pc = "done"
      /\ \A i \in 1..Len(pdf_files) :
            /\ rets[i]
            /\ FileNamed(pdf_files[i]).pdf.openable
            /\ FileNamed(pdf_files[i]).pdf.readable )
    => /\ Cardinality(DOMAIN output_dir) = Len(pdf_files)
       /\ \A i \in 1..Len(pdf_files) :
             SplitExtRoot(pdf_files[i]) \o JsonExt \in DOMAIN output_dir
       /\ \A n \in DOMAIN output_dir :
             \A k \in 1..Len(output_dir[n].outline) :
                {"level", "text", "page"} \subseteq DOMAIN output_dir[n].outline[k]

\* C6: the body size is a most frequent font size of the document and every
\* outline entry comes from a run strictly larger than it
C6_GateInvariant ==
    Analysed =>
        LET n == Len(text_elements)
            count(s) == Cardinality({i \in 1..n : text_elements[i].font_size = s})
        IN  /\ \E i \in 1..n : text_elements[i].font_size = body_stats.size
            /\ \A i \in 1..n :
                  count(text_elements[i].font_size) <= count(body_stats.size)
            /\ \A k \in 1..Len(Outline) :
                  /\ Outline[k].src \in 1..n
                  /\ Origin(Outline[k]).text = Outline[k].text
                  /\ Origin(Outline[k]).page = Outline[k].page
                  /\ Origin(Outline[k]).font_size > body_stats.size

\* a bold run of at least three characters at or below body size, which
\* scores 3 or more, next to a non-empty outline
C6_Witness ==
    /\ Analysed
    /\ Outline # << >>
    /\ \E i \in 1..Len(text_elements) :
          /\ text_elements[i].font_size <= body_stats.size
          /\ text_elements[i].is_bold # 0
          /\ ~ text_elements[i].has_numbers
          /\ Len(text_elements[i].text) >= 3

LevelNumber(level) ==
    CASE level = "H1" -> 1 [] level = "H2" -> 2 [] level = "H3" -> 3 [] OTHER -> 0

\* C7: with the signatures ordered by font size descending, the first
\* min(3, k) get H1, H2, H3; their candidates are emitted in order with
\* text and page unchanged, and the candidates of the others are absent
C7_LevelClassifier ==
    Analysed =>
        LET cand == heading_candidates
            cls  == classified_headings
            sig(c) == <<c.font_size, c.is_bold, c.is_all_caps>>
            sigs == {sig(cand[i]) : i \in 1..Len(cand)}
            larger(c)  == {k \in sigs : k[1] > c.font_size}
            atleast(c) == {k \in sigs : k[1] >= c.font_size}
            emitted(i) == {k \in 1..Len(cls) : cls[k].src = cand[i].src}
            mapped == {sig(cand[i]) : i \in {j \in 1..Len(cand) : emitted(j) # {}}}
        IN  /\ \A k \in 1..Len(cls) : cls[k].level \in {"H1", "H2", "H3"}
            /\ \A k \in 1..(Len(cls) - 1) : cls[k].src < cls[k + 1].src
            /\ \A k \in 1..Len(cls) : \E i \in 1..Len(cand) : cls[k].src = cand[i].src
            /\ \A i \in 1..Len(cand) : \A k \in emitted(i) :
                  /\ cls[k].text = cand[i].text
                  /\ cls[k].page = cand[i].page
                  /\ Cardinality(larger(cand[i])) < LevelNumber(cls[k].level)
                  /\ LevelNumber(cls[k].level) <= Cardinality(atleast(cand[i]))
            /\ \A i \in 1..Len(cand) :
                  Cardinality(larger(cand[i])) >= 3 => emitted(i) = {}
            /\ \A i, j \in 1..Len(cand) :
                  sig(cand[i]) = sig(cand[j]) =>
                      (emitted(i) = {}) = (emitted(j) = {})
            /\ \A i, j \in 1..Len(cand) : \A k \in emitted(i) : \A m \in emitted(j) :
                  (sig(cand[i]) = sig(cand[j])) = (cls[k].level = cls[m].level)
            /\ Cardinality(mapped) =
                  (IF Cardinality(sigs) < 3 THEN Cardinality(sigs) ELSE 3)

\* four signatures among the candidates: three levels in use, one
\* signature left out
C7_Witness ==
    /\ Analysed
    /\ Cardinality({<<heading_candidates[i].font_size, heading_candidates[i].is_bold,
                      heading_candidates[i].is_all_caps>> :
                        i \in 1..Len(heading_candidates)}) >= 4
    /\ {classified_headings[k].level : k \in 1..Len(classified_headings)}
          = {"H1", "H2", "H3"}
    /\ Len(classified_headings) < Len(heading_candidates)

C9_Title ==
    Analysed =>
        LET P1 == {i \in 1..Len(text_elements) : text_elements[i].page = 1}
            e(i) == text_elements[i]
            before(a, b) == \/ a.font_size > b.font_size
                            \/ a.font_size = b.font_size /\ a.y_pos < b.y_pos
            qual(a) == /\ a.font_size >= 120
                       /\ a.word_count >= 1 /\ a.word_count <= 15
                       /\ ~ HasDigit(a.text)
                       /\ ~ StartsWith(a.text, PagePrefix)
                       /\ ~ StartsWith(a.text, ChapterPrefix)
                       /\ Len(a.text) > 2
            ahead(i)    == Cardinality({j \in P1 : before(e(j), e(i))})
            notafter(i) == Cardinality({j \in P1 : ~ before(e(i), e(j))})
        IN  IF P1 = {} THEN result.title = UntitledDocument
            ELSE \E r \in P1 :
                    /\ result.title = e(r).text
                    /\ \/ /\ qual(e(r))
                          /\ ahead(r) < 10
                          /\ \A q \in P1 : qual(e(q)) => ~ before(e(q), e(r))
                       \/ /\ \A q \in P1 : qual(e(q)) => notafter(q) > 10
                          /\ \A j \in P1 : ~ before(e(j), e(r))

\* more than 10 runs on page 1, a qualifying run among them that is not in
\* the first 10, and the title taken from a non-qualifying run
C9_Witness ==
    /\ Analysed
    /\ Cardinality({i \in 1..Len(text_elements) : text_elements[i].page = 1}) > 10
    /\ \E i \in 1..Len(text_elements) :
          text_elements[i].page = 1 /\ IsGoodTitle(text_elements[i])
    /\ ~ \E i \in 1..Len(text_elements) :
          IsGoodTitle(text_elements[i]) /\ text_elements[i].text = result.title

\* C10: two candidates of equal font size and all-caps flag that are both
\* bold get the same level or are both left out
C10_BoldSameStyle ==
    Analysed =>
        \A i, j \in 1..Len(heading_candidates) :
            LET a == heading_candidates[i]
                b == heading_candidates[j]
                la == {h.level : h \in {classified_headings[k] : k \in
                          {k \in 1..Len(classified_headings) :
                              classified_headings[k].src = a.src}}}
                lb == {h.level : h \in {classified_headings[k] : k \in
                          {k \in 1..Len(classified_headings) :
                              classified_headings[k].src = b.src}}}
            IN  ( /\ a.font_size = b.font_size
                  /\ a.is_all_caps = b.is_all_caps
                  /\ a.is_bold # 0
                  /\ b.is_bold # 0 ) => la = lb

====
